---- MODULE Spec2Model ----
(***************************************************************************)
(* A model of the contextual translation pipeline of VLC Ollama Translate: *)
(* the dialogue history and context window (context.py), the request       *)
(* client's retry loop and its two endpoints (api_client.py) and the       *)
(* translation session that drives them (translator.py).                   *)
(*                                                                         *)
(* Text is a sequence of one-character strings, so that lengths, suffixes  *)
(* and joins are computed as the code computes them.                       *)
(***************************************************************************)
EXTENDS Integers, Sequences, FiniteSets, TLC

VARIABLES
    tr,   \* one SubtitleTranslator session (translator.py)
    hs,   \* a SubtitleHistory driven directly by add / shrink calls
    cw,   \* one ContextWindow.build_segments call: its inputs and its result
    est,  \* one estimate_token_count call: its text and its result
    duo   \* two SubtitleTranslator instances of one process, calls interleaved

vars == <<tr, hs, cw, est, duo>>

----------------------------------------------------------------------------
(* Bounds of the model *)

\* longest history drawn as an input of build_segments
MaxHist == 4
\* largest small token budget drawn (6000, the default, is drawn as well)
MaxBudget == 3
\* longest history the add / shrink harness grows
MaxHistLen == 4
\* largest shrink target drawn by the add / shrink harness
MaxTarget == 3
\* most failed attempts one request makes before the network stops failing
MaxAttempts == 3
\* most translate calls of one session
MaxCalls == 2
\* longest text handed to estimate_token_count on its own
MaxTextLen == 9
\* most translate calls of one long session (the history reaches its cap)
MaxLongCalls == 66

----------------------------------------------------------------------------
(* Generic helpers *)

Max(a, b) == IF a >= b THEN a ELSE b

Min(a, b) == IF a <= b THEN a ELSE b

Range(s) == {s[i] : i \in 1..Len(s)}

\* All sequences over S of length at most n
SeqUpTo(S, n) == UNION {[1..k -> S] : k \in 0..n}

\* Python's int(a / b) for b > 0: true division, truncated towards zero
IntDiv(a, b) == IF a >= 0 THEN a \div b ELSE -((-a) \div b)

Prefix(s, n) == IF n >= Len(s) THEN s ELSE SubSeq(s, 1, n)

\* Python's s[-n:] for n > 0: the trailing n characters, all of s when n >= len(s)
Suffix(s, n) == IF n >= Len(s) THEN s ELSE SubSeq(s, Len(s) - n + 1, Len(s))

----------------------------------------------------------------------------
(* Subtitle lines used as inputs *)

EmptyText == <<>>

Hi == <<"h", "i">>

Line1 == <<"l", "i", "n", "e", "1">>

Line2 == <<"l", "i", "n", "e", "2">>

Line3 == <<"l", "i", "n", "e", "3">>

Hello == <<"H", "e", "l", "l", "o">>

LongLine == <<"a", "b", "c", "d", "e", "f", "g", "h", "i">>

----------------------------------------------------------------------------
(* context.py *)

EstimateRounded(text) ==
    IF text = EmptyText THEN 0 ELSE Max(0, (Len(text) + 2) \div 4)

estimate_token_count(text) ==
    IF text = EmptyText THEN 0 ELSE Max(0, IntDiv(Len(text), 4))

HistoryAddUnlessRepeated(entries, subtitle) ==
    IF subtitle # EmptyText /\ (entries = <<>> \/ entries[Len(entries)] # subtitle)
    THEN Append(entries, subtitle) ELSE entries

\* SubtitleHistory.add
HistoryAdd(entries, subtitle) ==
    IF subtitle # EmptyText THEN Append(entries, subtitle) ELSE entries

\* SubtitleHistory.shrink
HistoryShrinkOffByOne(entries, target) ==
    LET t == IF target < 0 THEN 0 ELSE target
    IN  IF Len(entries) > t + 1
        THEN SubSeq(entries, Len(entries) - t, Len(entries))
        ELSE entries

HistoryShrink(entries, target) ==
    LET t == IF target < 0 THEN 0 ELSE target
    IN  IF Len(entries) > t
        THEN SubSeq(entries, Len(entries) - t + 1, Len(entries))
        ELSE entries

\* SubtitleHistory.iter_recent, as the indices it visits: newest prior entry
\* first, the last entry (the current line) left out
IterRecentWithCurrent(entries) == IF Len(entries) > 1 THEN Len(entries) ELSE 0

IterRecentStart(entries) == IF Len(entries) > 1 THEN Len(entries) - 1 ELSE 0

\* segments.insert(0, subtitle); each segment carries the index of the
\* history entry it was taken from
InsertBack(segments, seg) == Append(segments, seg)

InsertFront(segments, seg) == <<seg>> \o segments

FitsStrict(used_tokens, tokens, available) == used_tokens + tokens < available

FitsExactly(used_tokens, tokens, available) == used_tokens + tokens = available

Fits(used_tokens, tokens, available) == used_tokens + tokens <= available

AvailableNoReserve(token_budget, current_text, max_model_tokens) ==
    LET current_tokens == estimate_token_count(current_text)
    IN  Max(0, Min(token_budget, Max(0, max_model_tokens - current_tokens)))

Available(token_budget, current_text, max_model_tokens) ==
    LET current_tokens == estimate_token_count(current_text)
        safe0 == max_model_tokens - 1000
        safe_budget == IF safe0 < 0 THEN max_model_tokens ELSE safe0
    IN  Max(0, Min(token_budget, Max(0, safe_budget - current_tokens)))

\* The loop of build_segments over iter_recent, from entry i downwards
RECURSIVE ScanRecent(_, _, _, _, _, _)
ScanRecent(entries, i, used_tokens, segments, available, use_smart_trim) ==
    IF i < 1 THEN segments
    ELSE
        LET subtitle == entries[i]
            tokens == estimate_token_count(subtitle)
        IN  IF tokens <= 0
            THEN ScanRecent(entries, i - 1, used_tokens, segments, available,
                            use_smart_trim)
            ELSE IF Fits(used_tokens, tokens, available)
            THEN ScanRecent(entries, i - 1, used_tokens + tokens,
                            InsertFront(segments, [idx |-> i, text |-> subtitle]),
                            available, use_smart_trim)
            ELSE IF use_smart_trim /\ available > used_tokens
            THEN LET remaining == available - used_tokens
                     char_budget == remaining * 4
                 IN  IF char_budget > 0
                     THEN InsertFront(segments,
                                      [idx |-> i, text |-> Suffix(subtitle, char_budget)])
                     ELSE segments
            ELSE segments

\* The same loop, as the place where it meets the first entry that does not
\* fit (idx 0 when it runs out of entries) and the tokens used up to there
RECURSIVE ScanStop(_, _, _, _)
ScanStop(entries, i, used_tokens, available) ==
    IF i < 1 THEN [idx |-> 0, used_tokens |-> used_tokens]
    ELSE
        LET tokens == estimate_token_count(entries[i])
        IN  IF tokens <= 0
            THEN ScanStop(entries, i - 1, used_tokens, available)
            ELSE IF Fits(used_tokens, tokens, available)
            THEN ScanStop(entries, i - 1, used_tokens + tokens, available)
            ELSE [idx |-> i, used_tokens |-> used_tokens]

BuildSegmentsAlwaysTrim(entries, current_text, max_model_tokens, token_budget, truncation_mode) ==
    ScanRecent(entries, IterRecentStart(entries), 0, <<>>,
               Available(token_budget, current_text, max_model_tokens), TRUE)

\* ContextWindow.build_segments with the source index of every segment
BuildSegmentsIdx(entries, current_text, max_model_tokens, token_budget, truncation_mode) ==
    ScanRecent(entries, IterRecentStart(entries), 0, <<>>,
               Available(token_budget, current_text, max_model_tokens),
               truncation_mode = "smart_trim")

SegmentTexts(segs) == [k \in 1..Len(segs) |-> segs[k].text]

build_segments(entries, current_text, max_model_tokens, token_budget, truncation_mode) ==
    SegmentTexts(BuildSegmentsIdx(entries, current_text, max_model_tokens,
                                  token_budget, truncation_mode))

\* ContextWindow.shrink_history: the target handed to history.shrink
ShrinkTarget(token_budget) ==
    LET history_budget == IF token_budget > 0 THEN token_budget ELSE 0
        t0 == IF history_budget # 0 THEN IntDiv(history_budget, 16) ELSE 0
        t1 == IF t0 < 96 THEN 96 ELSE t0
        history_target == IF t1 > 2048 THEN 2048 ELSE t1
        s0 == history_target - 64
        s1 == IF s0 < 64
              THEN (IF history_target # 0 THEN history_target \div 2 ELSE 0)
              ELSE s0
    IN  IF s1 < 32 THEN 32 ELSE s1

ShrinkHistorySkipped(entries, token_budget) == entries

shrink_history(entries, token_budget) ==
    HistoryShrink(entries, ShrinkTarget(token_budget))

----------------------------------------------------------------------------
(* translator.py: prompt assembly.  A template is a sequence of items as   *)
(* str.format reads them: literal text, the escapes {{ and }}, and         *)
(* replacement fields.  Formatted text is a sequence of atoms: the         *)
(* template's literal chunks and the characters of the values.             *)

Lit(s) == [k |-> "lit", v |-> s]

LBrace2 == [k |-> "lbrace2", v |-> "{{"]

RBrace2 == [k |-> "rbrace2", v |-> "}}"]

Field(name) == [k |-> "field", v |-> name]

\* A replacement field with no argument name before its first dot, as in
\* "{...}": str.format numbers it and reads the positional argument index
AutoField(index) == [k |-> "auto", v |-> index]

CACHE_INSTRUCTION_TEMPLATE ==
    << Lit("Translate the complete content under 'Subtitle to translate' using the provided context entries if available. "),
       Lit("Each entry is shown as \"Context entry (older to newer): "),
       AutoField(0),
       Lit("\" and must never appear in the output.\n\n"),
       Lit("Source language: "), Field("source"), Lit("\n"),
       Lit("Target language: "), Field("target"), Lit("\n\n"),
       Lit("Output only the translated subtitle without extra commentary.") >>

PromptIntro ==
    "Translate the complete content under the section 'Subtitle to translate' based on the section 'Subtitle context', if it exists.\n\n"

ContextHeader == "[Subtitle context](DO NOT OUTPUT!):\n"

SubtitleHeader == "[Subtitle to translate]:\n"

USER_PROMPT_TEMPLATE ==
    << Lit(PromptIntro),
       Lit("Source language: "), Field("source"), Lit("\n"),
       Lit("Target language: "), Field("target"), Lit("\n\n"),
       Lit(ContextHeader), LBrace2, Field("context"), RBrace2, Lit("\n\n"),
       Lit(SubtitleHeader), LBrace2, Field("subtitle"), RBrace2 >>

\* The text handed to str.replace in _build_user_prompt, character for
\* character: the unformatted context section of the template
ContextSectionLiteral ==
    << ContextHeader, "{", "{", "{", "context", "}", "}", "}", "\n\n" >>

\* str.format
RECURSIVE Format(_, _)
Format(template, args) ==
    IF template = <<>> THEN <<>>
    ELSE LET item == Head(template)
             out == CASE item.k = "lit" -> <<item.v>>
                      [] item.k = "lbrace2" -> <<"{">>
                      [] item.k = "rbrace2" -> <<"}">>
                      [] item.k = "field" -> args[item.v]
         IN  out \o Format(Tail(template), args)

\* The exception str.format raises when called on template with the keyword
\* arguments names and with positional positional arguments; "" for none
RECURSIVE FormatError(_, _, _)
FormatError(template, names, positional) ==
    IF template = <<>> THEN ""
    ELSE LET item == Head(template)
         IN  IF item.k = "auto" /\ item.v >= positional THEN "IndexError"
             ELSE IF item.k = "field" /\ item.v \notin names THEN "KeyError"
             ELSE FormatError(Tail(template), names, positional)

\* str.replace: every occurrence of old, left to right, none overlapping
RECURSIVE Replace(_, _, _)
Replace(s, old, new) ==
    IF Len(s) < Len(old) \/ old = <<>> THEN s
    ELSE IF SubSeq(s, 1, Len(old)) = old
    THEN new \o Replace(SubSeq(s, Len(old) + 1, Len(s)), old, new)
    ELSE <<Head(s)>> \o Replace(Tail(s), old, new)

\* "\n".join(context_segments)
RECURSIVE JoinLines(_)
JoinLines(segments) ==
    IF segments = <<>> THEN <<>>
    ELSE IF Len(segments) = 1 THEN segments[1]
    ELSE segments[1] \o <<"\n">> \o JoinLines(Tail(segments))

\* SubtitleTranslator._format_language
format_language(value, label) == IF value = "" THEN <<label>> ELSE <<value>>

\* SubtitleTranslator._build_user_prompt
build_user_prompt(subtitle, context_segments, source, target) ==
    LET context_text == IF context_segments # <<>>
                        THEN JoinLines(context_segments) ELSE <<>>
        user_prompt == Format(USER_PROMPT_TEMPLATE,
                              [source |-> source, target |-> target,
                               context |-> context_text, subtitle |-> subtitle])
    IN  IF context_segments = <<>>
        THEN Replace(user_prompt, ContextSectionLiteral, <<>>)
        ELSE user_prompt

----------------------------------------------------------------------------
(* api_client.py.  A parsed response is a JSON object; its members are     *)
(* tagged with their JSON type.                                            *)

None == [is_none |-> TRUE, text |-> <<>>]

\* No parsed response yet
NoResponse == [output_kind |-> "none", output |-> <<>>]

Some(text) == [is_none |-> FALSE, text |-> text]

\* The outcomes of one HTTP attempt that _request_with_retry tells apart:
\* a success status with a JSON body, a success status with a body that is
\* not JSON, an HTTP error status, and a transport failure (URLError)
Outcomes == {"ok", "badjson", "http", "url"}

GateBreaksAtFirstRetry(retry_mode, attempts) ==
    attempts > 0 /\ (retry_mode = 0 \/ retry_mode = 1)

\* The gate at the top of the loop
GateBreaks(retry_mode, attempts) ==
    attempts > 0 /\ (retry_mode = 0 \/ (retry_mode = 1 /\ attempts > 1))

DelaysBeforeLooseGrouping(delay_ms, retry_mode, attempts) ==
    \/ (delay_ms > 0 /\ attempts = 0 /\ retry_mode = 3)
    \/ attempts > 0

\* Whether time.sleep(delay_seconds) runs before the attempt
DelaysBefore(delay_ms, retry_mode, attempts) ==
    /\ delay_ms > 0
    /\ ((attempts = 0 /\ retry_mode = 3) \/ attempts > 0)

\* The check after attempts += 1
RaisesOnlyNoRetry(retry_mode, attempts) ==
    retry_mode = 0 /\ attempts > retry_mode

RaisesAlsoForever(retry_mode, attempts) ==
    retry_mode \in {0, 1, 2} /\ attempts > retry_mode

RaisesBelowTwo(retry_mode, attempts) ==
    retry_mode <= 1 /\ attempts > retry_mode

RaisesAfterFailure(retry_mode, attempts) ==
    retry_mode \in {0, 1} /\ attempts > retry_mode

\* How one attempt with the given outcome leaves the loop, if it does
AttemptEndRetryBadJson(outcome, retry_mode, attempts) ==
    CASE outcome = "ok" -> "return"
      [] outcome = "http" -> "raise"
      [] OTHER -> IF RaisesAfterFailure(retry_mode, attempts + 1)
                  THEN "raise" ELSE "continue"

AttemptEndRetryHttp(outcome, retry_mode, attempts) ==
    CASE outcome = "ok" -> "return"
      [] outcome = "badjson" -> "raise"
      [] OTHER -> IF RaisesAfterFailure(retry_mode, attempts + 1)
                  THEN "raise" ELSE "continue"

AttemptEnd(outcome, retry_mode, attempts) ==
    CASE outcome = "ok" -> "return"
      [] outcome = "http" -> "raise"
      [] outcome = "badjson" -> "raise"
      [] outcome = "url" -> IF RaisesAfterFailure(retry_mode, attempts + 1)
                            THEN "raise" ELSE "continue"

\* The first test of translate_responses: no request when the mode is "off"
CacheDisabled(context_cache_mode) == context_cache_mode = "off"

\* URLs are sequences of parts
ChatUrl == <<"https://api/v1", "/chat/completions">>

EmptyUrl == <<>>

\* str.rstrip("/")
RECURSIVE RStripSlash(_)
RStripSlash(url) ==
    IF url # <<>> /\ url[Len(url)] = "/"
    THEN RStripSlash(SubSeq(url, 1, Len(url) - 1))
    ELSE url

\* APIClient._derive_responses_url; <<>> stands for None
derive_responses_url(api_url) ==
    LET url == RStripSlash(api_url)
    IN  IF url = <<>> THEN <<>>
        ELSE IF "/responses" \in Range(url) THEN url
        ELSE IF "/chat/completions" \in Range(url)
        THEN Replace(url, <<"/chat/completions">>, <<"/responses">>)
        ELSE url \o <<"/responses">>

\* urllib.request.Request(url) raises ValueError for a URL without a scheme
ValidUrl(url) == url # <<>> /\ url[1] = "https://api/v1"

\* The text of one part of an entry's content, if the part yields one
PartText(part) ==
    IF part.kind = "output_text" /\ part.text # <<>> THEN Some(part.text)
    ELSE IF part.kind = "str" THEN Some(part.text)
    ELSE None

RECURSIVE FirstPartText(_)
FirstPartText(parts) ==
    IF parts = <<>> THEN None
    ELSE IF ~PartText(Head(parts)).is_none THEN PartText(Head(parts))
    ELSE FirstPartText(Tail(parts))

FirstEntryTextOnly(output) ==
    IF output = <<>> \/ ~Head(output).is_dict THEN None
    ELSE FirstPartText(Head(output).content)

\* The loop of translate_responses over the entries of output
RECURSIVE FirstEntryText(_)
FirstEntryText(output) ==
    IF output = <<>> THEN None
    ELSE LET entry == Head(output)
             found == IF entry.is_dict THEN FirstPartText(entry.content) ELSE None
         IN  IF ~found.is_none THEN found ELSE FirstEntryText(Tail(output))

\* The same loop, for what it raises: "for part in entry.get(...)" is a
\* TypeError when the content of an entry it reaches is not iterable
RECURSIVE EntriesRaise(_)
EntriesRaise(output) ==
    IF output = <<>> THEN FALSE
    ELSE LET entry == Head(output)
         IN  IF ~entry.is_dict THEN EntriesRaise(Tail(output))
             ELSE IF ~entry.iterable THEN TRUE
             ELSE IF ~FirstPartText(entry.content).is_none THEN FALSE
             ELSE EntriesRaise(Tail(output))

\* translate_responses, from the parsed response on
ResponsesText(response) ==
    IF response.output_kind # "list" THEN None
    ELSE FirstEntryText(response.output)

ResponsesRaises(response) ==
    response.output_kind = "list" /\ EntriesRaise(response.output)

\* translate_chat, from the parsed response on: the content, or the APIError
ChatText(response) ==
    IF response.choices_kind = "missing"
        THEN [error |-> "Malformed response: missing 'choices' field", text |-> <<>>]
    ELSE IF response.choices = <<>>
        THEN [error |-> "Empty response from the translation API", text |-> <<>>]
    ELSE IF response.choices[1].content = <<>>
        THEN [error |-> "Translation API returned no content", text |-> <<>>]
    ELSE [error |-> "", text |-> response.choices[1].content]

----------------------------------------------------------------------------
(* translator.py: one SubtitleTranslator session.  The operators map a     *)
(* session record to the session record after the step.                    *)

RtlMarker == "U+202B"

RtlLanguages == {"fa", "ar", "he"}

\* str.strip: leading and trailing whitespace removed
RECURSIVE LStrip(_)
LStrip(text) ==
    IF text # <<>> /\ Head(text) = " " THEN LStrip(Tail(text)) ELSE text

RECURSIVE RStrip(_)
RStrip(text) ==
    IF text # <<>> /\ text[Len(text)] = " "
    THEN RStrip(SubSeq(text, 1, Len(text) - 1))
    ELSE text

Strip(text) == RStrip(LStrip(text))

\* SubtitleTranslator.__init__
NewTranslator(config, max_model_tokens) ==
    [config |-> config,
     max_model_tokens |-> max_model_tokens,
     entries |-> <<>>,
     \* the longest the history has been inside the last translate call
     peak_len |-> 0,
     cache_failed |-> FALSE,
     \* where the session is: between calls, or inside the request loop of
     \* translate_responses or of translate_chat
     pc |-> "idle",
     attempts |-> 0,
     \* the call in progress, or the last one
     subtitle |-> <<>>,
     context_segments |-> <<>>,
     user_prompt |-> <<>>,
     translation |-> None,
     \* the parsed response translate_responses got, when it got one
     response |-> NoResponse,
     result |-> "none",
     translated |-> <<>>,
     \* the exception that ended the call, when it is not an APIError
     error |-> "",
     \* who called the client: translate, or a direct call of
     \* translate_responses / translate_chat
     via |-> "none",
     \* the call before this one: who made it and what it got
     previous |-> [via |-> "none", optimized |-> "none", result |-> "none"],
     \* what the call did, recorded for the properties
     flag_at_start |-> FALSE,
     failures_at_start |-> 0,
     http_log |-> <<>>,
     req_end |-> [responses |-> "none", chat |-> "none"],
     optimized |-> "none",
     calls |-> 0,
     optimized_failures |-> 0]

\* The guard of the optimized attempt in translate
UseOptimized(t) ==
    t.config.context_cache_mode # "off" /\ ~t.cache_failed

\* The end of translate: marking, strip, return
Finish(t, translation) ==
    LET marked == IF t.config.target_language \in RtlLanguages
                  THEN <<RtlMarker>> \o translation ELSE translation
    IN  [t EXCEPT !.pc = "idle", !.result = "returned",
                  !.translation = Some(translation),
                  !.translated = Strip(marked)]

\* translate, from "if translation is None" on: the call of translate_chat
EnterChat(t) == [t EXCEPT !.pc = "chat", !.attempts = 0]

\* The optimized attempt raised an APIError or returned None
OptimizedFailed(t, how) ==
    EnterChat([t EXCEPT !.translation = None, !.cache_failed = TRUE,
                        !.optimized = how,
                        !.optimized_failures = @ + 1])

\* translate, up to the first request
TranslateBegin(t, subtitle) ==
    LET c == t.config
        added == HistoryAdd(t.entries, subtitle)
        segments == build_segments(added, subtitle, t.max_model_tokens,
                                   c.context_token_budget,
                                   c.context_truncation_mode)
        kept == shrink_history(added, c.context_token_budget)
        prompt == build_user_prompt(subtitle, segments,
                                    format_language(c.source_language, "Auto Detect"),
                                    format_language(c.target_language, "Auto Detect"))
        t1 == [t EXCEPT !.entries = kept,
                        !.peak_len = Len(added),
                        !.subtitle = subtitle,
                        !.context_segments = segments,
                        !.user_prompt = prompt,
                        !.translation = None,
                        !.response = NoResponse,
                        !.result = "none",
                        !.translated = <<>>,
                        !.attempts = 0,
                        !.flag_at_start = t.cache_failed,
                        !.failures_at_start = t.optimized_failures,
                        !.http_log = <<>>,
                        !.req_end = [responses |-> "none", chat |-> "none"],
                        !.optimized = "skipped",
                        !.error = "",
                        !.via = "translate",
                        !.previous = [via |-> t.via, optimized |-> t.optimized,
                                      result |-> t.result],
                        !.calls = @ + 1]
        \* CACHE_INSTRUCTION_TEMPLATE.format(source=..., target=...)
        raised == FormatError(CACHE_INSTRUCTION_TEMPLATE, {"source", "target"}, 0)
    IN  IF raised # ""
        THEN [t1 EXCEPT !.pc = "idle", !.result = "crashed", !.error = raised,
                        !.optimized = "none"]
        ELSE IF UseOptimized(t)
        THEN IF CacheDisabled(c.context_cache_mode)
                   \/ derive_responses_url(c.api_url) = <<>>
             THEN OptimizedFailed(t1, "no_url")
             ELSE [t1 EXCEPT !.pc = "responses", !.optimized = "pending"]
        ELSE EnterChat(t1)

\* A direct call of APIClient.translate_responses or translate_chat, up to
\* its request; translate_responses returns None without one when the cache
\* mode is off or no responses URL can be derived
ClientBegin(t, ep) ==
    LET c == t.config
        t1 == [t EXCEPT !.translation = None,
                        !.response = NoResponse,
                        !.result = "none",
                        !.translated = <<>>,
                        !.attempts = 0,
                        !.flag_at_start = t.cache_failed,
                        !.failures_at_start = t.optimized_failures,
                        !.http_log = <<>>,
                        !.req_end = [responses |-> "none", chat |-> "none"],
                        !.optimized = "none",
                        !.error = "",
                        !.via = "client",
                        !.previous = [via |-> t.via, optimized |-> t.optimized,
                                      result |-> t.result],
                        !.calls = @ + 1]
    IN  IF ep = "responses" /\ CacheDisabled(c.context_cache_mode)
        THEN [t1 EXCEPT !.pc = "idle", !.result = "returned", !.optimized = "off"]
        ELSE IF ep = "responses" /\ derive_responses_url(c.api_url) = <<>>
        THEN [t1 EXCEPT !.pc = "idle", !.result = "returned", !.optimized = "no_url"]
        ELSE [t1 EXCEPT !.pc = ep,
                        !.optimized = IF ep = "responses" THEN "pending" ELSE "none"]

\* The URL the request loop in progress posts to
RequestUrl(t) ==
    IF t.pc = "responses" THEN derive_responses_url(t.config.api_url)
    ELSE t.config.api_url

\* _request_with_retry left by raise APIError, and what its caller does
RequestRaised(t) ==
    LET t1 == [t EXCEPT !.req_end[t.pc] = "raised"]
    IN  IF t.via = "translate" /\ t.pc = "responses"
        THEN OptimizedFailed(t1, "raised")
        ELSE [t1 EXCEPT !.pc = "idle", !.result = "raised",
                        !.optimized = IF t.pc = "responses" THEN "raised" ELSE @]

\* _request_with_retry left by return parsed, and what its caller does
RequestReturned(t, response) ==
    LET t1 == [t EXCEPT !.req_end[t.pc] = "returned",
                        !.response = IF t.pc = "responses" THEN response ELSE @]
    IN  IF t.pc = "responses"
        THEN LET text == ResponsesText(response)
             IN  IF ResponsesRaises(response)
                 THEN [t1 EXCEPT !.pc = "idle", !.result = "crashed",
                                 !.error = "TypeError"]
                 ELSE IF t.via = "client"
                 THEN [t1 EXCEPT !.pc = "idle", !.result = "returned",
                                 !.translation = text,
                                 !.optimized = IF text.is_none THEN "no_result"
                                               ELSE "text"]
                 ELSE IF text.is_none
                 THEN OptimizedFailed(t1, "no_result")
                 ELSE Finish([t1 EXCEPT !.optimized = "text"], text.text)
        ELSE LET chat == ChatText(response)
             IN  IF chat.error # ""
                 THEN [t1 EXCEPT !.pc = "idle", !.result = "raised"]
                 ELSE IF t.via = "client"
                 THEN [t1 EXCEPT !.pc = "idle", !.result = "returned",
                                 !.translation = Some(chat.text)]
                 ELSE Finish(t1, chat.text)

\* One pass of the while loop of _request_with_retry, with the outcome of
\* its HTTP attempt and, for a success, the parsed body
RequestAttempt(t, outcome, response) ==
    LET c == t.config
    IN  IF GateBreaks(c.retry_mode, t.attempts)
        \* the loop is left by break: the call returns None to a caller that
        \* takes it for a response
        THEN [t EXCEPT !.req_end[t.pc] = "fell_through", !.pc = "idle",
                       !.result = "crashed", !.error = "TypeError"]
        ELSE IF ~ValidUrl(RequestUrl(t))
        THEN [t EXCEPT !.req_end[t.pc] = "value_error", !.pc = "idle",
                       !.result = "crashed", !.error = "ValueError"]
        ELSE
            LET posted == [ep |-> t.pc, attempt |-> t.attempts,
                           delayed |-> DelaysBefore(c.delay_ms, c.retry_mode, t.attempts),
                           outcome |-> outcome]
                t1 == [t EXCEPT !.http_log = Append(@, posted)]
                end == AttemptEnd(outcome, c.retry_mode, t.attempts)
            IN  CASE end = "return" -> RequestReturned(t1, response)
                  [] end = "raise" -> RequestRaised(t1)
                  [] end = "continue" -> [t1 EXCEPT !.attempts = @ + 1]

----------------------------------------------------------------------------
(* Idle values of the harness variables *)

HsIdle == [entries |-> <<>>, last_op |-> "off", last_target |-> 0,
           shrunk |-> FALSE, removed |-> 0, adds_since |-> 0]

CwIdle == [phase |-> "off", entries |-> <<>>, current_text |-> <<>>,
           max_model_tokens |-> 0, token_budget |-> 0,
           truncation_mode |-> "drop_oldest", segments |-> <<>>]

TrIdle == [pc |-> "off"]

EstIdle == [phase |-> "off"]

DuoIdle == [phase |-> "off"]

----------------------------------------------------------------------------
(* SubtitleHistory under arbitrary add / shrink calls *)

HistLines == {EmptyText, Line1, Hello}

HsInit ==
    /\ hs = [entries |-> <<>>, last_op |-> "none", last_target |-> 0,
             shrunk |-> FALSE, removed |-> 0, adds_since |-> 0]
    /\ cw = CwIdle
    /\ tr = TrIdle
    /\ est = EstIdle
    /\ duo = DuoIdle

HsAdd(line) ==
    /\ Len(hs.entries) < MaxHistLen
    /\ hs' = [hs EXCEPT !.entries = HistoryAdd(hs.entries, line),
                        !.last_op = "add",
                        !.adds_since = Min(hs.adds_since + 1, MaxHistLen)]
    /\ UNCHANGED <<tr, cw, est, duo>>

HsShrink(target) ==
    /\ hs' = [entries |-> HistoryShrink(hs.entries, target),
              last_op |-> "shrink", last_target |-> target, shrunk |-> TRUE,
              removed |-> Len(hs.entries) - Len(HistoryShrink(hs.entries, target)),
              adds_since |-> 0]
    /\ UNCHANGED <<tr, cw, est, duo>>

HsNext ==
    \/ \E line \in HistLines : HsAdd(line)
    \/ \E target \in -1..MaxTarget : HsShrink(target)

SpecHistory == HsInit /\ [][HsNext]_vars

----------------------------------------------------------------------------
(* build_segments as a function of its inputs *)

CtxLines == {Hi, Line1, Line2, Line3, LongLine}

CtxHistories == SeqUpTo(CtxLines, MaxHist)

CtxCurrentTexts == {Line3, LongLine}

DefaultBudget == 6000

DefaultCeiling == 4096

CtxBudgets == (-1..MaxBudget) \cup {DefaultBudget}

\* 4096: the default; 1001: a safe budget of one token; 3: below the reserve
CtxCeilings == {DefaultCeiling, 1001, 3}

TruncationModes == {"drop_oldest", "smart_trim"}

CwInit ==
    /\ \E e \in CtxHistories, c \in CtxCurrentTexts, m \in CtxCeilings,
          b \in CtxBudgets, t \in TruncationModes :
          cw = [phase |-> "input", entries |-> e, current_text |-> c,
                max_model_tokens |-> m, token_budget |-> b,
                truncation_mode |-> t, segments |-> <<>>]
    /\ hs = HsIdle
    /\ tr = TrIdle
    /\ est = EstIdle
    /\ duo = DuoIdle

CwBuild ==
    /\ cw.phase = "input"
    /\ cw' = [cw EXCEPT !.phase = "built",
                        !.segments = BuildSegmentsIdx(cw.entries, cw.current_text,
                                                      cw.max_model_tokens,
                                                      cw.token_budget,
                                                      cw.truncation_mode)]
    /\ UNCHANGED <<tr, hs, est, duo>>

CwNext == CwBuild

SpecContext == CwInit /\ [][CwNext]_vars

----------------------------------------------------------------------------
(* estimate_token_count as a function of its text *)

EstTexts == SeqUpTo({"a", "b"}, MaxTextLen)

EstInit ==
    /\ \E text \in EstTexts : est = [phase |-> "input", text |-> text, tokens |-> 0]
    /\ hs = HsIdle
    /\ cw = CwIdle
    /\ tr = TrIdle
    /\ duo = DuoIdle

Estimate ==
    /\ est.phase = "input"
    /\ est' = [est EXCEPT !.phase = "done",
                          !.tokens = estimate_token_count(est.text)]
    /\ UNCHANGED <<tr, hs, cw, duo>>

EstNext == Estimate

SpecEstimate == EstInit /\ [][EstNext]_vars

----------------------------------------------------------------------------
(* A translator and its client: calls of translate and of the client's     *)
(* translate_responses / translate_chat one after the other, the outcomes  *)
(* of the HTTP attempts chosen by the network                              *)

Hola == <<"h", "o", "l", "a">>

\* The same text as a model pads it: whitespace before and after
PaddedHola == <<" ">> \o Hola \o <<" ">>

TextPart(text) == [kind |-> "output_text", text |-> text]

StrPart(text) == [kind |-> "str", text |-> text]

\* Another kind of part, such as a reasoning part
OtherPart(text) == [kind |-> "reasoning", text |-> text]

Entry(parts) == [is_dict |-> TRUE, iterable |-> TRUE, content |-> parts]

\* An entry whose content is null
NullEntry == [is_dict |-> TRUE, iterable |-> FALSE, content |-> <<>>]

\* An entry of output that is a string, not an object
StrEntry == [is_dict |-> FALSE, iterable |-> FALSE, content |-> <<>>]

Adios == <<"a", "d", "i", "o", "s">>

\* Bodies the responses endpoint answers with
ResponsesBodies ==
    { [output_kind |-> "missing", output |-> <<>>],
      [output_kind |-> "list", output |-> <<>>],
      [output_kind |-> "list", output |-> <<Entry(<<TextPart(Hola)>>)>>],
      [output_kind |-> "list", output |-> <<Entry(<<StrPart(<<>>)>>)>>],
      [output_kind |-> "list",
       output |-> <<Entry(<<TextPart(<<>>)>>), Entry(<<TextPart(Hola)>>)>>],
      [output_kind |-> "list", output |-> <<Entry(<<>>)>>],
      [output_kind |-> "list",
       output |-> <<Entry(<<OtherPart(Hola), TextPart(<<>>), StrPart(Adios)>>),
                    Entry(<<TextPart(Hola)>>)>>],
      [output_kind |-> "list",
       output |-> <<StrEntry, Entry(<<OtherPart(Adios)>>), Entry(<<TextPart(Hola)>>)>>],
      [output_kind |-> "list", output |-> <<Entry(<<TextPart(Hola)>>), NullEntry>>],
      [output_kind |-> "list", output |-> <<Entry(<<>>), NullEntry>>] }

\* Bodies the chat completions endpoint answers with
ChatBodies ==
    { [choices_kind |-> "missing", choices |-> <<>>],
      [choices_kind |-> "list", choices |-> <<>>],
      [choices_kind |-> "list", choices |-> <<[content |-> <<>>]>>],
      [choices_kind |-> "list", choices |-> <<[content |-> Hola]>>],
      [choices_kind |-> "list", choices |-> <<[content |-> PaddedHola]>>] }

NoBody == [output_kind |-> "missing", output |-> <<>>]

Bodies(ep) == IF ep = "responses" THEN ResponsesBodies ELSE ChatBodies

\* The lines translate is called with: cmd_translate skips empty ones
SessionLines == {Hello, Line1, LongLine}

\* str.isdigit for one character, and the digit's value
DigitChars == <<"0", "1", "2", "3", "4", "5", "6", "7", "8", "9">>

IsDigit(ch) == \E d \in 1..Len(DigitChars) : DigitChars[d] = ch

DigitValue(ch) == (CHOOSE d \in 1..Len(DigitChars) : DigitChars[d] = ch) - 1

\* int(digits) for a string of decimal digits
RECURSIVE IntOfDigits(_)
IntOfDigits(digits) ==
    IF digits = <<>> THEN 0
    ELSE 10 * IntOfDigits(SubSeq(digits, 1, Len(digits) - 1))
            + DigitValue(digits[Len(digits)])

StartsWith(token, prefix) ==
    Len(token) >= Len(prefix) /\ SubSeq(token, 1, Len(prefix)) = prefix

RetryPrefix == <<"r", "e", "t", "r", "y">>

\* The value above which a bare number is taken for a delay
DelayThreshold == 1000

DefaultRetryMode == 0

DefaultDelayMs == 0

\* update_from_login_string for one token after the model name, as far as
\* retry_mode and delay_ms go: a "retry<digits>" token stores the number its
\* digits spell, a token of digits only stores a delay from 1000 on and a
\* retry mode below; the other tokens leave both alone
update_from_login_string(config, token) ==
    IF StartsWith(token, RetryPrefix)
    THEN LET digits == SelectSeq(token, IsDigit)
         IN  IF digits # <<>> THEN [config EXCEPT !.retry_mode = IntOfDigits(digits)]
             ELSE config
    ELSE IF token # <<>> /\ \A i \in 1..Len(token) : IsDigit(token[i])
    THEN LET value == IntOfDigits(token)
         IN  IF value >= DelayThreshold THEN [config EXCEPT !.delay_ms = value]
             ELSE [config EXCEPT !.retry_mode = value]
    ELSE config

\* Tokens of a login string
LoginTokens ==
    { <<"1">>, <<"2">>, <<"3">>, <<"4">>, <<"0", "0", "7">>,
      RetryPrefix \o <<"7">>, RetryPrefix \o <<"-", "1">>, RetryPrefix,
      <<"1", "0", "0", "0">>, <<"-", "1">> }

\* A mode below the range, as "--retry-mode -1" or a configuration file stores
NegativeRetryMode == -1

\* The retry modes a session is configured with: the ones a login string
\* stores over the default, and a negative one
RetryModes ==
    {NegativeRetryMode}
        \cup {update_from_login_string([retry_mode |-> DefaultRetryMode,
                                         delay_ms |-> DefaultDelayMs], token).retry_mode :
                  token \in LoginTokens}

SessionConfigs ==
    [retry_mode : RetryModes,
     delay_ms : {0, 500},
     context_cache_mode : {"auto", "off"},
     api_url : {ChatUrl, EmptyUrl},
     source_language : {""},
     target_language : {"en"},
     context_token_budget : {DefaultBudget},
     context_truncation_mode : {"drop_oldest"}]

TrInit ==
    /\ \E config \in SessionConfigs : tr = NewTranslator(config, DefaultCeiling)
    /\ hs = HsIdle
    /\ cw = CwIdle
    /\ est = EstIdle
    /\ duo = DuoIdle

Translate(subtitle) ==
    /\ tr.pc = "idle"
    /\ tr.calls < MaxCalls
    /\ tr' = TranslateBegin(tr, subtitle)
    /\ UNCHANGED <<hs, cw, est, duo>>

\* translate_responses or translate_chat called on the session's client
Call(ep) ==
    /\ tr.pc = "idle"
    /\ tr.calls < MaxCalls
    /\ tr' = ClientBegin(tr, ep)
    /\ UNCHANGED <<hs, cw, est, duo>>

\* A transport failure is drawn only while the request has failed fewer
\* than MaxAttempts times
Request(outcome, response) ==
    /\ tr.pc \in {"responses", "chat"}
    /\ outcome = "url" => tr.attempts < MaxAttempts
    /\ tr' = RequestAttempt(tr, outcome, response)
    /\ UNCHANGED <<hs, cw, est, duo>>

Next ==
    \/ \E subtitle \in SessionLines : Translate(subtitle)
    \/ \E ep \in {"responses", "chat"} : Call(ep)
    \/ \E outcome \in Outcomes \ {"ok"} : Request(outcome, NoBody)
    \/ \E response \in Bodies(tr.pc) : Request("ok", response)

Spec == TrInit /\ [][Next]_vars

----------------------------------------------------------------------------
(* A long session: translate called until the history reaches its cap *)

\* 0, -1 and 1600 give a target under 128 (shrink target target / 2); 2048
\* gives 128 (shrink target 128 - 64)
LongBudgets == {-1, 0, 1600, 2048}

LongConfigs ==
    [retry_mode : {0},
     delay_ms : {0},
     context_cache_mode : {"auto"},
     api_url : {ChatUrl},
     source_language : {""},
     target_language : {"en"},
     context_token_budget : LongBudgets,
     context_truncation_mode : TruncationModes]

\* The model ceiling is 1001, a safe budget of one token: every call takes
\* at most one line of context, however long the history
LongInit ==
    /\ \E config \in LongConfigs : tr = NewTranslator(config, 1001)
    /\ hs = HsIdle
    /\ cw = CwIdle
    /\ est = EstIdle
    /\ duo = DuoIdle

TranslateLong(subtitle) ==
    /\ tr.pc = "idle"
    /\ tr.calls < MaxLongCalls
    /\ tr' = TranslateBegin(tr, subtitle)
    /\ UNCHANGED <<hs, cw, est, duo>>

LongNext == TranslateLong(Line1)

SpecLongSession == LongInit /\ [][LongNext]_vars

----------------------------------------------------------------------------
(* Two SubtitleTranslator instances in one process.  The history list and  *)
(* the optimized-failed flag are objects; an instance reads and writes     *)
(* them through the object it refers to.                                   *)

Instances == {1, 2}

HistoryOfClass(i) == 1

\* SubtitleHistory(): entries = field(default_factory=list), a list of its
\* own for every instance
HistoryObject(i) == i

\* self._cache_failed = False: an attribute of the instance
FlagObject(i) == i

DuoConfigs ==
    [retry_mode : {0},
     delay_ms : {0},
     context_cache_mode : {"auto", "off"},
     api_url : {ChatUrl},
     source_language : {""},
     target_language : {"en"},
     context_token_budget : {DefaultBudget},
     context_truncation_mode : {"drop_oldest"}]

DuoInit ==
    /\ \E c1 \in DuoConfigs, c2 \in DuoConfigs :
          LET new == [i \in Instances |->
                         NewTranslator(IF i = 1 THEN c1 ELSE c2, DefaultCeiling)]
          IN  duo = [lists |-> [o \in Instances |-> <<>>],
                     flags |-> [o \in Instances |-> FALSE],
                     ses |-> new,
                     \* each instance as it would be had only its own calls run
                     alone |-> new,
                     \* the instances in the order of their calls
                     order |-> <<>>]
    /\ hs = HsIdle
    /\ cw = CwIdle
    /\ tr = TrIdle
    /\ est = EstIdle

\* Instance i as its code sees it: its history and its flag are read through
\* the objects it refers to
Load(i) ==
    [duo.ses[i] EXCEPT !.entries = duo.lists[HistoryObject(i)],
                       !.cache_failed = duo.flags[FlagObject(i)]]

DuoTranslate(i, subtitle) ==
    /\ Load(i).pc = "idle"
    /\ Load(i).calls < MaxCalls
    /\ LET t == TranslateBegin(Load(i), subtitle)
       IN  duo' = [duo EXCEPT !.lists[HistoryObject(i)] = t.entries,
                              !.flags[FlagObject(i)] = t.cache_failed,
                              !.ses[i] = t,
                              !.alone[i] = TranslateBegin(duo.alone[i], subtitle),
                              !.order = Append(@, i)]
    /\ UNCHANGED <<tr, hs, cw, est>>

DuoNext == \E i \in Instances, subtitle \in SessionLines : DuoTranslate(i, subtitle)

SpecInstances == DuoInit /\ [][DuoNext]_vars

----------------------------------------------------------------------------
(* The same session under every kind of target language *)

TargetLanguages == {"en", "es", "ar", "fa", "he"}

LanguageConfigs ==
    [retry_mode : {0},
     delay_ms : {0},
     context_cache_mode : {"auto", "off"},
     api_url : {ChatUrl},
     source_language : {"", "ja"},
     target_language : TargetLanguages,
     context_token_budget : {DefaultBudget},
     context_truncation_mode : {"drop_oldest"}]

LangInit ==
    /\ \E config \in LanguageConfigs : tr = NewTranslator(config, DefaultCeiling)
    /\ hs = HsIdle
    /\ cw = CwIdle
    /\ est = EstIdle
    /\ duo = DuoIdle

SpecLanguages == LangInit /\ [][Next]_vars

----------------------------------------------------------------------------
(* Claims about the session and the request loop *)

\* The HTTP attempts of the current call's request to one endpoint
EpLog(ep) == SelectSeq(tr.http_log, LAMBDA e : e.ep = ep)

Endpoints == {"responses", "chat"}

LastOutcome(ep) == EpLog(ep)[Len(EpLog(ep))].outcome

\* A translate call that has ended, by return or by an exception
TranslateEnded == tr.via = "translate" /\ tr.pc = "idle"

C2_OptimizedFailureAbsorbed ==
    TranslateEnded =>
        /\ tr.result \in {"raised", "crashed"} => tr.req_end.chat # "none"
        /\ tr.req_end.chat # "none" <=> tr.optimized # "text"

\* C3: one request makes exactly one HTTP attempt under mode 0 and at most
\* two under mode 1, the second only after the first failed; once mode + 1
\* attempts have failed the request raises an API error and attempts no more.
C3_RetryCeiling ==
    \A ep \in Endpoints :
        LET log == EpLog(ep)
            mode == tr.config.retry_mode
        IN  mode \in {0, 1} =>
              /\ Len(log) <= mode + 1
              /\ (mode = 0 /\ tr.req_end[ep] \in {"returned", "raised"}) => Len(log) = 1
              /\ \A i \in 2..Len(log) : log[i - 1].outcome = "url"
              /\ (Len(log) = mode + 1 /\ log[Len(log)].outcome # "ok") =>
                    tr.req_end[ep] = "raised"
              /\ tr.req_end[ep] # "fell_through"

C3_Witness ==
    /\ tr.config.retry_mode = 1
    /\ Len(EpLog("chat")) = 2
    /\ EpLog("chat")[1].outcome = "url"
    /\ EpLog("chat")[2].outcome = "url"
    /\ tr.req_end.chat = "raised"

\* C4 as stated: under modes 2 and 3 a request never raises because an
\* attempt failed, whatever the kind of failure.
C4_NeverRaisesOnFailure ==
    tr.config.retry_mode \in {2, 3} =>
        \A ep \in Endpoints : tr.req_end[ep] # "raised"

\* C4 amended: under modes 2 and 3 a request never raises because of a
\* transport failure: after any number of them it is still in its loop and
\* attempts again; it ends only by returning a response or by the API error
\* raised at once for an HTTP error status or an unparsable success body.
C4_ForeverModesRetryTransport ==
    tr.config.retry_mode \in {2, 3} =>
        \A ep \in Endpoints :
            LET log == EpLog(ep)
            IN  /\ tr.req_end[ep] = "raised" => LastOutcome(ep) \in {"http", "badjson"}
                /\ tr.req_end[ep] # "fell_through"
                /\ \A i \in 1..Len(log) :
                      log[i].outcome = "url" => (i < Len(log) \/ tr.pc = ep)
                /\ tr.pc = ep =>
                      /\ tr.attempts = Len(log)
                      /\ ~GateBreaks(tr.config.retry_mode, tr.attempts)

C4_Witness ==
    /\ tr.config.retry_mode = 2
    /\ Len(EpLog("chat")) = 4
    /\ \A i \in 1..3 : EpLog("chat")[i].outcome = "url"
    /\ tr.req_end.chat = "returned"

\* C5 as stated: an HTTP error response is retried like a transport failure:
\* a request raises on a failed attempt only when the retry policy is
\* exhausted, whichever of the two the failures were.
C5_HttpErrorRetriedLikeTransport ==
    \A ep \in Endpoints :
        (tr.req_end[ep] = "raised" /\ LastOutcome(ep) \in {"http", "url"}) =>
            RaisesAfterFailure(tr.config.retry_mode, Len(EpLog(ep)))

\* C5 amended: an HTTP error response is never retried: under every retry
\* mode it raises an API error at once and is the last attempt of its
\* request, while a transport failure that the policy lets retry is followed
\* by another attempt.
C5_HttpErrorTerminal ==
    \A ep \in Endpoints :
        LET log == EpLog(ep)
        IN  \A i \in 1..Len(log) :
              /\ log[i].outcome = "http" =>
                    (i = Len(log) /\ tr.req_end[ep] = "raised")
              /\ (log[i].outcome = "url"
                    /\ ~RaisesAfterFailure(tr.config.retry_mode, i)) =>
                    (i < Len(log) \/ tr.pc = ep)

C5_Witness ==
    /\ tr.config.retry_mode = 1
    /\ Len(EpLog("chat")) = 1
    /\ EpLog("chat")[1].outcome = "http"
    /\ tr.req_end.chat = "raised"
    /\ tr.result = "raised"

\* C6: a success response whose body is not JSON ends its request under
\* every retry mode: the request raises an API error at once and makes no
\* further attempt.
C6_BadJsonTerminal ==
    \A ep \in Endpoints :
        LET log == EpLog(ep)
        IN  \A i \in 1..Len(log) :
              log[i].outcome = "badjson" =>
                  /\ i = Len(log)
                  /\ tr.req_end[ep] = "raised"
                  /\ tr.pc # ep

C6_Witness ==
    /\ tr.config.retry_mode = 3
    /\ Len(EpLog("chat")) = 2
    /\ EpLog("chat")[1].outcome = "url"
    /\ EpLog("chat")[2].outcome = "badjson"
    /\ tr.req_end.chat = "raised"
    /\ tr.result = "raised"

\* C7: when build_segments returns no segments, the user prompt translate
\* assembles for the baseline endpoint holds no context section: neither its
\* header nor an empty body.
C7_NoContextSection ==
    (tr.via = "translate" /\ tr.context_segments = <<>>) =>
        /\ ContextHeader \notin Range(tr.user_prompt)
        /\ \A i \in 1..(Len(tr.user_prompt) - 1) :
              ~(tr.user_prompt[i] = "{" /\ tr.user_prompt[i + 1] = "}")

----------------------------------------------------------------------------
(* Claims about the context window and the history *)

C8Scenario(budget) ==
    /\ cw.phase = "built"
    /\ cw.entries = <<Line1, Line2, Line3>>
    /\ cw.current_text = Line3
    /\ cw.token_budget = budget
    /\ cw.truncation_mode = "drop_oldest"
    /\ cw.max_model_tokens = DefaultCeiling

\* C8 as stated: history [line1, line2, line3], line3 current, token_budget 1,
\* drop_oldest, ceiling 4096: build_segments returns the empty list.
C8_TinyBudgetEmpty == C8Scenario(1) => SegmentTexts(cw.segments) = <<>>

\* C8 amended: in that scenario build_segments returns exactly [line2] (the
\* newest prior line costs one token, which fits a budget of one); the list
\* is empty with token_budget 0.
C8_TinyBudgetNewestOnly ==
    /\ C8Scenario(1) => SegmentTexts(cw.segments) = <<Line2>>
    /\ C8Scenario(0) => SegmentTexts(cw.segments) = <<>>

C8_Witness == C8Scenario(1) /\ Len(cw.segments) = 1

\* C9 as stated: after any add / shrink calls the history holds no empty
\* string and is no longer than the target of the last shrink call.
C9_LengthWithinLastTarget ==
    /\ \A i \in 1..Len(hs.entries) : hs.entries[i] # EmptyText
    /\ hs.shrunk => Len(hs.entries) <= hs.last_target

\* C9 amended: the history never holds an empty string; right after
\* shrink(target) it is no longer than max(target, 0), and every add since
\* then has grown it by at most one.
C9_HistoryInvariant ==
    /\ \A i \in 1..Len(hs.entries) : hs.entries[i] # EmptyText
    /\ hs.last_op = "shrink" => Len(hs.entries) <= Max(hs.last_target, 0)
    /\ hs.shrunk => Len(hs.entries) <= Max(hs.last_target, 0) + hs.adds_since

C9_Witness ==
    /\ hs.last_op = "shrink"
    /\ hs.removed > 0
    /\ Len(hs.entries) = hs.last_target
    /\ hs.last_target > 0

\* Whether text is the history entry e, or (smart_trim) a trailing part of it
IsSuffixOf(text, e) ==
    Len(text) <= Len(e) /\ text = Suffix(e, Len(text))

\* C10: the segments build_segments returns are in the chronological order
\* of the history entries they were taken from, in both truncation modes and
\* however many entries are dropped.
C10_ChronologicalOrder ==
    cw.phase = "built" =>
        /\ \A k \in 1..Len(cw.segments) :
              /\ cw.segments[k].idx \in 1..(Len(cw.entries) - 1)
              /\ IsSuffixOf(cw.segments[k].text, cw.entries[cw.segments[k].idx])
        /\ \A j, k \in 1..Len(cw.segments) :
              j < k => cw.segments[j].idx < cw.segments[k].idx

C10_Witness ==
    /\ cw.phase = "built"
    /\ Len(cw.segments) = 2
    /\ Len(cw.entries) = 4
    /\ cw.segments[1].text # cw.segments[2].text
    /\ cw.truncation_mode = "smart_trim"
    /\ cw.segments[1].text # cw.entries[cw.segments[1].idx]

----------------------------------------------------------------------------
(* Claims about the token estimate and the shape of the context *)

\* C11: under drop_oldest, with the history, the current line and the model
\* ceiling fixed, a smaller context_token_budget never yields more segments
\* than a larger one.
C11_BudgetMonotone ==
    (cw.phase = "built" /\ cw.truncation_mode = "drop_oldest") =>
        \A b \in CtxBudgets :
            b <= cw.token_budget =>
                Len(build_segments(cw.entries, cw.current_text, cw.max_model_tokens,
                                   b, "drop_oldest")) <= Len(cw.segments)

C11_Witness ==
    /\ cw.phase = "built"
    /\ cw.truncation_mode = "drop_oldest"
    /\ Len(cw.segments) = 2
    /\ \E b \in CtxBudgets :
          /\ 0 < b
          /\ b < cw.token_budget
          /\ Len(build_segments(cw.entries, cw.current_text, cw.max_model_tokens,
                                b, "drop_oldest")) = 1

\* The entry at which the scan of the built call stopped, and the budget
\* (available - used) that was left when it got there
C12Stop ==
    ScanStop(cw.entries, IterRecentStart(cw.entries), 0,
             Available(cw.token_budget, cw.current_text, cw.max_model_tokens))

C12Remaining ==
    Available(cw.token_budget, cw.current_text, cw.max_model_tokens)
        - C12Stop.used_tokens

\* The scan reached an entry that costs exactly one token more than is left
C12Boundary ==
    /\ cw.phase = "built"
    /\ C12Stop.idx > 0
    /\ estimate_token_count(cw.entries[C12Stop.idx]) = C12Remaining + 1

\* The first segment is the trailing 4 * C12Remaining characters of the entry
\* the scan stopped at, and is not empty
C12Trimmed ==
    LET e == cw.entries[C12Stop.idx]
        n == 4 * C12Remaining
    IN  /\ cw.segments # <<>>
        /\ cw.segments[1].idx = C12Stop.idx
        /\ cw.segments[1].text # <<>>
        /\ Len(cw.segments[1].text) = n
        /\ cw.segments[1].text = SubSeq(e, Len(e) - n + 1, Len(e))

C12Absent == \A k \in 1..Len(cw.segments) : cw.segments[k].idx # C12Stop.idx

\* C12 as stated: whenever the scan reaches an entry that exceeds the
\* remaining budget by exactly one token, smart_trim includes a non-empty
\* suffix of exactly remaining * 4 characters of it and drop_oldest leaves it
\* out.
C12_BoundaryAlwaysTrimmed ==
    C12Boundary =>
        /\ cw.truncation_mode = "smart_trim" => C12Trimmed
        /\ cw.truncation_mode = "drop_oldest" => C12Absent

\* C12 amended: at that boundary smart_trim includes the non-empty suffix of
\* exactly remaining * 4 characters when the remaining budget is at least one
\* token; with no budget left (a one-token entry) the entry is absent under
\* smart_trim too; drop_oldest always leaves it out.
C12_BoundaryTrimmedIfBudgetLeft ==
    C12Boundary =>
        /\ (cw.truncation_mode = "smart_trim" /\ C12Remaining >= 1) => C12Trimmed
        /\ (cw.truncation_mode = "smart_trim" /\ C12Remaining = 0) => C12Absent
        /\ cw.truncation_mode = "drop_oldest" => C12Absent

C12_Witness ==
    /\ C12Boundary
    /\ cw.truncation_mode = "smart_trim"
    /\ C12Remaining = 1
    /\ Len(cw.segments) = 2
    /\ cw.segments[1].text = <<"f", "g", "h", "i">>

\* C16: estimate_token_count(text) is floor(len(text) / 4), never negative,
\* and 0 for the empty text.
C16_EstimateIsFloorQuarter ==
    est.phase = "done" =>
        /\ est.tokens >= 0
        /\ 4 * est.tokens <= Len(est.text)
        /\ Len(est.text) < 4 * (est.tokens + 1)
        /\ est.text = <<>> => est.tokens = 0

C16_Witness ==
    /\ est.phase = "done"
    /\ Len(est.text) = 7
    /\ est.tokens = 1

RECURSIVE SumTokens(_)
\* Estimated tokens of a sequence of segments, summed
SumTokens(segs) ==
    IF segs = <<>> THEN 0
    ELSE estimate_token_count(Head(segs).text) + SumTokens(Tail(segs))

\* available as the claims state it: the safe budget is the ceiling less
\* 1000, the ceiling itself when that is negative, and what is available is
\* max(0, min(token_budget, safe budget - tokens of the current line))
C17Available ==
    LET safeBudget == IF cw.max_model_tokens - 1000 < 0
                      THEN cw.max_model_tokens
                      ELSE cw.max_model_tokens - 1000
        currentTokens == Len(cw.current_text) \div 4
        room == safeBudget - currentTokens
        least == IF cw.token_budget <= room THEN cw.token_budget ELSE room
    IN  IF least < 0 THEN 0 ELSE least

\* C17: the estimated tokens of the returned segments sum to at most
\* available, and no segment is returned when available is 0.
C17_BudgetNeverExceeded ==
    cw.phase = "built" =>
        /\ SumTokens(cw.segments) <= C17Available
        /\ C17Available = 0 => cw.segments = <<>>

C17_Witness ==
    /\ cw.phase = "built"
    /\ cw.truncation_mode = "smart_trim"
    /\ cw.token_budget = 3
    /\ C17Available = 2
    /\ Len(cw.segments) = 2
    /\ cw.segments[1].text # cw.entries[cw.segments[1].idx]
    /\ SumTokens(cw.segments) = 2

\* The history indices the segments were taken from
SegmentIdxs == {cw.segments[k].idx : k \in 1..Len(cw.segments)}

\* The prior entries (every entry but the last, the current line)
PriorIdxs == 1..(Len(cw.entries) - 1)

\* The prior entries estimated at one token or more
CostlyIdxs == {j \in PriorIdxs : Len(cw.entries[j]) \div 4 >= 1}

RECURSIVE TokensFrom(_)
\* The running total once entry j is added: the tokens of entry j and of
\* every newer prior entry
TokensFrom(j) ==
    IF j > Len(cw.entries) - 1 THEN 0
    ELSE (Len(cw.entries[j]) \div 4) + TokensFrom(j + 1)

\* C18 as stated: the segments are a contiguous run of the newest prior
\* entries, so the most recent prior entry is included whenever an older one
\* is.
C18_ContiguousNewestRun ==
    (cw.phase = "built" /\ cw.segments # <<>>) =>
        /\ Len(cw.entries) - 1 \in SegmentIdxs
        /\ \A j \in PriorIdxs : j > cw.segments[1].idx => j \in SegmentIdxs

\* C18 amended: entries estimated at 0 tokens (under 4 characters) are
\* skipped and never included; among the other prior entries the segments
\* are a contiguous run of the newest ones, the most recent of them is
\* included whenever an older one is, and each of them whose addition keeps
\* the running total within available is accepted in full.
C18_NewestCostlyRun ==
    cw.phase = "built" =>
        /\ SegmentIdxs \subseteq CostlyIdxs
        /\ \A j \in CostlyIdxs :
              (cw.segments # <<>> /\ j > cw.segments[1].idx) => j \in SegmentIdxs
        /\ \A j \in CostlyIdxs :
              TokensFrom(j) <= C17Available =>
                  \E k \in 1..Len(cw.segments) :
                      cw.segments[k] = [idx |-> j, text |-> cw.entries[j]]

C18_Witness ==
    /\ cw.phase = "built"
    /\ Len(cw.entries) = 4
    /\ cw.entries[3] = Hi
    /\ cw.entries[1] = Hi
    /\ SegmentIdxs = {2}
    /\ cw.segments[1].text = cw.entries[2]

\* Segment k is a truncated entry: a trailing part of its entry, shorter
\* than the entry
TruncatedSegment(k) ==
    LET e == cw.entries[cw.segments[k].idx]
        text == cw.segments[k].text
    IN  /\ Len(text) < Len(e)
        /\ text = SubSeq(e, Len(e) - Len(text) + 1, Len(e))

FullSegment(k) == cw.segments[k].text = cw.entries[cw.segments[k].idx]

\* C19: under drop_oldest every segment is exactly a full prior entry; under
\* smart_trim at most one segment is truncated, it is the first (oldest)
\* element, and no entry older than the truncated one is included.
C19_SegmentShape ==
    cw.phase = "built" =>
        /\ \A k \in 1..Len(cw.segments) :
              /\ cw.segments[k].idx \in PriorIdxs
              /\ FullSegment(k) \/ TruncatedSegment(k)
              /\ (cw.truncation_mode = "drop_oldest" \/ k > 1) => FullSegment(k)
        /\ (cw.segments # <<>> /\ TruncatedSegment(1)) =>
              \A k \in 1..Len(cw.segments) :
                  cw.segments[k].idx >= cw.segments[1].idx

C19_Witness ==
    /\ cw.phase = "built"
    /\ cw.truncation_mode = "smart_trim"
    /\ Len(cw.entries) = 4
    /\ Len(cw.segments) = 2
    /\ TruncatedSegment(1)
    /\ cw.segments[1].idx = 2
    /\ FullSegment(2)

----------------------------------------------------------------------------
(* Claims about the whole translate call *)

\* C13: a translate call returns a text that begins with U+202B exactly
\* when the target language is "ar", "fa" or "he".
C13_RtlMarking ==
    TranslateEnded =>
        ((tr.result = "returned" /\ tr.translated # <<>>
             /\ tr.translated[1] = "U+202B")
            <=> tr.config.target_language \in {"ar", "fa", "he"})

\* C14: under retry modes 0 and 1 a translate call ends by returning a
\* result or by raising an API error, after at most mode + 1 HTTP attempts
\* on each endpoint, 2 * (mode + 1) in all.
C14_BoundedModesTerminate ==
    (tr.via = "translate" /\ tr.config.retry_mode \in {0, 1}) =>
        /\ tr.pc = "idle" => tr.result \in {"returned", "raised"}
        /\ \A ep \in Endpoints : Len(EpLog(ep)) <= tr.config.retry_mode + 1
        /\ Len(tr.http_log) <= 2 * (tr.config.retry_mode + 1)

\* The shrink target as the claim states it: target is token_budget / 16
\* clamped to 96..2048, the shrink target is target - 64, replaced by
\* max(target / 2, 32) when target - 64 is under 64
C20ShrinkTarget ==
    LET quotient == tr.config.context_token_budget \div 16
        target == IF quotient < 96 THEN 96
                  ELSE IF quotient > 2048 THEN 2048 ELSE quotient
        half == target \div 2
    IN  IF target - 64 < 64
        THEN (IF half < 32 THEN 32 ELSE half)
        ELSE target - 64

\* C20: after every translate call the history is no longer than the shrink
\* target, which lies in 32..1984, and inside a call the history never holds
\* more than shrink target + 1 entries.
C20_HistoryBounded ==
    /\ 32 <= C20ShrinkTarget
    /\ C20ShrinkTarget <= 1984
    /\ Len(tr.entries) <= C20ShrinkTarget
    /\ tr.peak_len <= C20ShrinkTarget + 1

C20_Witness ==
    /\ tr.config.context_token_budget = 2048
    /\ tr.calls > 65
    /\ tr.peak_len = 65
    /\ Len(tr.entries) = 64

----------------------------------------------------------------------------
(* Claims about the client's requests *)

\* The request of translate_responses has ended with an APIError: the
\* request failure on which translate sets the optimized-failed flag
ResponsesRaised == tr.req_end.responses = "raised"

C22_DelayGating ==
    \A i \in 1..Len(tr.http_log) :
        LET a == tr.http_log[i]
        IN  /\ a.delayed <=>
                  (tr.config.delay_ms > 0
                     /\ (a.attempt > 0 \/ tr.config.retry_mode = 3))
            /\ (a.attempt = 0 /\ tr.config.retry_mode \in {0, 1, 2}) => ~a.delayed

C22_Witness ==
    /\ tr.config.retry_mode = 3
    /\ tr.config.delay_ms = 500
    /\ Len(tr.http_log) = 2
    /\ tr.http_log[1].attempt = 0
    /\ tr.http_log[1].delayed
    /\ tr.http_log[2].attempt = 1
    /\ tr.http_log[2].delayed

\* C23: with the cache mode "off" no request is ever posted to the optimized
\* endpoint and the optimized-failed flag stays false, and every translate
\* call of the session issues its requests to the baseline endpoint.
C23_CacheOffBaselineOnly ==
    tr.config.context_cache_mode = "off" =>
        /\ tr.pc # "responses"
        /\ tr.req_end.responses = "none"
        /\ \A i \in 1..Len(tr.http_log) : tr.http_log[i].ep = "chat"
        /\ ~tr.cache_failed
        /\ TranslateEnded => tr.req_end.chat # "none"

\* A direct call of translate_responses whose request loop returned a
\* parsed response
ResponsesParsed == tr.via = "client" /\ tr.req_end.responses = "returned"

\* The first text part of a list of parts, none when it holds none
FirstTextOf(parts) ==
    LET texts == {k \in 1..Len(parts) : ~PartText(parts[k]).is_none}
    IN  IF texts = {} THEN None
        ELSE PartText(parts[CHOOSE k \in texts : \A j \in texts : k <= j])

\* The entries of output that hold a text part, and those with a null content
TextEntries(output) ==
    {i \in 1..Len(output) :
        /\ output[i].is_dict /\ output[i].iterable
        /\ ~FirstTextOf(output[i].content).is_none}

NullEntries(output) ==
    {i \in 1..Len(output) : output[i].is_dict /\ ~output[i].iterable}

C25_LineStaysInHistory ==
    [][ IF tr'.via = "translate" /\ tr'.calls = tr.calls + 1
        THEN tr'.subtitle # EmptyText =>
                LET added == Append(tr.entries, tr'.subtitle)
                IN  /\ tr'.peak_len = Len(added)
                    /\ \E n \in 1..Len(added) : tr'.entries = Suffix(added, n)
                    /\ tr'.entries[Len(tr'.entries)] = tr'.subtitle
                    /\ (tr.entries # <<>>
                            /\ Fits(0, estimate_token_count(tr.entries[Len(tr.entries)]),
                                    Available(tr.config.context_token_budget,
                                              tr'.subtitle, tr.max_model_tokens)))
                          => /\ tr'.context_segments # <<>>
                             /\ tr'.context_segments[Len(tr'.context_segments)]
                                    = tr.entries[Len(tr.entries)]
        ELSE tr'.entries = tr.entries ]_vars

C25_Witness ==
    /\ TranslateEnded
    /\ tr.previous.via = "translate"
    /\ tr.previous.result = "crashed"
    /\ tr.result = "crashed"
    /\ tr.subtitle = Line1
    /\ tr.entries = <<Line1, Line1>>
    /\ tr.context_segments = <<Line1>>

C27_OutOfRangeModesRetryForever ==
    tr.config.retry_mode \notin {0, 1} =>
        \A ep \in Endpoints :
            LET log == EpLog(ep)
            IN  /\ tr.req_end[ep] = "raised" => LastOutcome(ep) \in {"http", "badjson"}
                /\ \A i \in 1..Len(log) :
                      /\ log[i].outcome = "url" =>
                            \/ i < Len(log)
                            \/ tr.pc = ep /\ tr.attempts = i
                      /\ (log[i].attempt = 0 /\ log[i].delayed) =>
                            tr.config.retry_mode = 3
                      /\ (log[i].attempt = 0 /\ tr.config.retry_mode = 3
                            /\ tr.config.delay_ms > 0) => log[i].delayed

C27_Witness ==
    /\ tr.config.retry_mode = 7
    /\ tr.config.delay_ms = 500
    /\ tr.pc = "chat"
    /\ tr.attempts = MaxAttempts
    /\ Len(EpLog("chat")) = MaxAttempts
    /\ \A i \in 1..MaxAttempts :
          /\ EpLog("chat")[i].outcome = "url"
          /\ EpLog("chat")[i].delayed <=> i > 1

====
